---- MODULE Spec2Model ----
(***************************************************************************)
(* Model of hotel_booking.py: Room, Customer and Hotel, the booking        *)
(* transaction Hotel.book_room_for_customer and its inverse                *)
(* Hotel.cancel_booking.                                                   *)
(*                                                                         *)
(* Money.  The program computes with Python floats.  The model computes    *)
(* with exact decimals: a price per night is a whole number of cents, a    *)
(* season multiplier a whole number of tenths, so that a total price, a    *)
(* budget and a payment are whole numbers of thousandths (cents * tenths). *)
(* Binary rounding error of the float operations is not modelled.          *)
(*                                                                         *)
(* Clock.  datetime.now().month is an input of each call that reads it.   *)
(* Under Spec the two reads of one booking (calculate_price, log_booking)  *)
(* give the same month; under SpecClock the second may give the next.      *)
(*                                                                         *)
(* Objects.  A Room or Customer object is the index of its constructor     *)
(* arguments in RoomArgs / CustomerArgs; only the indices whose arguments  *)
(* pass __init__ exist as objects.  Python compares Room objects by        *)
(* identity (Room defines no __eq__), and so does the model.               *)
(***************************************************************************)
EXTENDS Integers, Sequences, FiniteSets

\* ------------------------------------------------------------------ bounds
\* the most entries the booking log grows to
MaxLog == 2
\* nights offered to a call: 0 .. MaxNights (0 is the invalid value)
MaxNights == 2
\* guests offered to a call: 0 .. MaxGuests (0 is the invalid value)
MaxGuests == 2

\* thousandths in one currency unit: 100 cents of 10 tenths each
Unit == 100 * 10

\* ------------------------------------------------------- season pricing
\* SEASON_MULTIPLIERS, in tenths
SEASON_MULTIPLIERS(season) ==
    CASE season = "winter" -> 8
      [] season = "spring" -> 10
      [] season = "summer" -> 13
      [] season = "fall"   -> 11

\* the month -> season table indexed by datetime.now().month - 1
SeasonTable ==
    << "winter", "winter", "spring", "spring", "spring", "summer",
       "summer", "summer", "fall", "fall", "fall", "winter" >>

\* mutant: the list indexed by month, not by month - 1
get_current_season_OffByOne(m) == SeasonTable[(m % 12) + 1]

\* get_current_season() when the clock reads month m (the list is indexed
\* from 0 by month - 1, the tuple from 1 by month)
get_current_season(m) == SeasonTable[m]

Months == 1..12

\* the month after m
NextMonth(m) == (m % 12) + 1

\* what datetime.now().month reads when a booking computes its price: a
\* summer month, the next month being a fall month
ClockMonths == {8}

\* ----------------------------------------------------------------- Room
\* constructor arguments of the Room objects the callers create: the rooms
\* of the tests (101 Single 100.0 max 1, 102 Double 150.0 max 2) and a
\* "Triple" (test_invalid_room_type); price_per_night in cents
RoomArgs ==
    << [room_number |-> 101, room_type |-> "Single", price_per_night |-> 10000, max_guests |-> 1],
       [room_number |-> 102, room_type |-> "Double", price_per_night |-> 15000, max_guests |-> 2],
       [room_number |-> 102, room_type |-> "Triple", price_per_night |-> 10000, max_guests |-> 3] >>

\* Room.__init__ raises nothing for these arguments
RoomInitOk(a) ==
    /\ a.room_type \in {"Single", "Double"}
    /\ ~(a.price_per_night <= 0)
    /\ ~(a.max_guests <= 0)

\* the Room objects that exist
RoomObjs == {o \in DOMAIN RoomArgs : RoomInitOk(RoomArgs[o])}

room_number(o) == RoomArgs[o].room_number
room_type(o) == RoomArgs[o].room_type
price_per_night(o) == RoomArgs[o].price_per_night
max_guests(o) == RoomArgs[o].max_guests

\* room numbers offered to a call: those of the Room objects and one that
\* no room carries
RoomNumbers == {room_number(o) : o \in RoomObjs} \cup {999}

\* mutant: the season's multiplier left out of the price
calculate_price_NoSeason(o, nights, m) == price_per_night(o) * 10 * nights

\* Room.calculate_price(nights) for nights > 0 when the clock reads month m,
\* in thousandths
calculate_price(o, nights, m) ==
    price_per_night(o) * SEASON_MULTIPLIERS(get_current_season(m)) * nights

\* ------------------------------------------------------------- Customer
\* a name is a tuple of characters
IsBlank(name) == \A i \in DOMAIN name : name[i] = " "

\* constructor arguments of the Customer objects the callers create;
\* budget in thousandths (500.0 and 130.0), and the rejected ones of
\* test_invalid_name and of a non-positive budget
CustomerArgs ==
    << [name |-> <<"g", "i", "o">>, budget |-> 500 * Unit],
       [name |-> <<"l", "a", "s", "h", "a">>, budget |-> 130 * Unit],
       [name |-> <<>>, budget |-> 500 * Unit],
       [name |-> <<" ", " ", " ">>, budget |-> 500 * Unit],
       [name |-> <<"n", "o">>, budget |-> 0],
       [name |-> <<"n", "e", "g">>, budget |-> (0 - 50) * Unit] >>

\* Customer.__init__ raises nothing for these arguments
CustomerInitOk(a) ==
    /\ ~(a.name = <<>> \/ IsBlank(a.name))
    /\ ~(a.budget <= 0)

\* the Customer objects that exist
Customers == {c \in DOMAIN CustomerArgs : CustomerInitOk(CustomerArgs[c])}

name(c) == CustomerArgs[c].name

\* mutant: the test asks for a positive budget, not a sufficient one
CanPay_Positive(b, total_price) == b > 0

\* Customer.pay_for_booking: the affordability test of line 88
CanPay(b, total_price) == b >= total_price

\* mutant: the budget not lowered
BudgetAfterPay_Free(b, total_price) == b

\* Customer.pay_for_booking: the budget after a successful payment
BudgetAfterPay(b, total_price) == b - total_price

\* mutant: the points rounded up
PointsFor_RoundUp(total_price) == (total_price + 100 * Unit - 1) \div (100 * Unit)

\* Customer.pay_for_booking: int(total_price / 100), total_price > 0 in
\* thousandths, so the quotient truncates toward zero as \div does
PointsFor(total_price) == total_price \div (100 * Unit)

\* mutant: remove_room removes nothing
ListRemove_Keep(list, x) == list

\* mutant: the first element removed, whatever it is
ListRemove_Head(list, x) == Tail(list)

\* list.remove(x): the list without its first occurrence of x
RECURSIVE ListRemove(_, _)
ListRemove(list, x) ==
    IF list = <<>> THEN <<>>
    ELSE IF Head(list) = x THEN Tail(list)
    ELSE <<Head(list)>> \o ListRemove(Tail(list), x)

\* x in list
InList(x, list) == \E i \in DOMAIN list : list[i] = x

\* ---------------------------------------------------------------- state
VARIABLES
    rooms,              \* Hotel.rooms: the sequence of registered Room objects
    bookings_log,       \* Hotel.bookings_log
    is_available,       \* Room.is_available of every Room object
    budget,             \* Customer.budget of every Customer object
    loyalty_points,     \* Customer.loyalty_points
    booked_rooms,       \* Customer.booked_rooms: a sequence of Room objects
    call,               \* the last call made: operation and arguments
    ret,                \* what the last call returned or raised
    booked_since,       \* history: the Room objects booked since their last
                        \* cancellation (read by no operation)
    out,                \* the value the last query returned
    tx                  \* of every caller, the book_room_for_customer call
                        \* it is in: position, arguments and locals

vars == << rooms, bookings_log, is_available, budget, loyalty_points,
           booked_rooms, call, ret, booked_since, out, tx >>

\* the program's own state
state == << rooms, bookings_log, is_available, budget, loyalty_points,
            booked_rooms >>

\* Python's None, as an argument
PyNone == "None"

\* a call record: the operation, its arguments, and the month the clock
\* read where the operation read it; what the operation does not take is 0,
\* and None for a room_type
Call(op, c, o, n, nights, guests, amount, m) ==
    [op |-> op, customer |-> c, room |-> o, room_number |-> n,
     nights |-> nights, guests |-> guests, amount |-> amount, month |-> m,
     room_type |-> PyNone]

\* what a query returns: a price (calculate_price,
\* calculate_total_booking) or a list of rooms (show_available_rooms)
NoOut == [price |-> 0, rooms |-> <<>>]

\* the callers that may be inside book_room_for_customer at once
Callers == {1, 2}

\* a caller that is in no call
IdleTx ==
    [pc |-> "idle", customer |-> 0, room_number |-> 0, nights |-> 0,
     guests |-> 0, room |-> 0, total_price |-> 0, passed |-> {}, ret |-> "None"]

\* Room(...), Customer(...) and Hotel(...) as constructed: every room
\* available, no room registered, no booking, an empty log
Init ==
    /\ rooms = <<>>
    /\ bookings_log = <<>>
    /\ is_available = [o \in RoomObjs |-> TRUE]
    /\ budget = [c \in Customers |-> CustomerArgs[c].budget]
    /\ loyalty_points = [c \in Customers |-> 0]
    /\ booked_rooms = [c \in Customers |-> <<>>]
    /\ call = Call("init", 0, 0, 0, 0, 0, 0, 0)
    /\ ret = "None"
    /\ booked_since = {}
    /\ out = NoOut
    /\ tx = [t \in Callers |-> IdleTx]

\* ---------------------------------------------------------------- Hotel
\* any(r.room_number == n for r in self.rooms)
NumberRegistered(n) == \E i \in DOMAIN rooms : room_number(rooms[i]) = n

\* mutant: only the room registered last is compared
AddRoomRejects_Last(o) ==
    rooms # <<>> /\ room_number(rooms[Len(rooms)]) = room_number(o)

\* Hotel.add_room(room): the duplicate test of line 119
AddRoomRejects(o) == NumberRegistered(room_number(o))

\* Hotel.add_room(room)
AddRoom(o) ==
    /\ call' = Call("add_room", 0, o, 0, 0, 0, 0, 0)
    /\ IF AddRoomRejects(o)
       THEN /\ ret' = "ValueError: already exists"
            /\ UNCHANGED rooms
       ELSE /\ ret' = "None"
            /\ rooms' = Append(rooms, o)
    /\ UNCHANGED << bookings_log, is_available, budget, loyalty_points,
                    booked_rooms, booked_since, out, tx >>

\* Hotel._find_room(n): the first registered room numbered n, 0 when the
\* loop ends without one (the method then raises)
_find_room(n) ==
    IF NumberRegistered(n)
    THEN rooms[CHOOSE i \in DOMAIN rooms :
                 /\ room_number(rooms[i]) = n
                 /\ \A j \in DOMAIN rooms : room_number(rooms[j]) = n => i <= j]
    ELSE 0

\* round(total_price, 2): thousandths to the nearest cent (no total of the
\* model lies halfway between two cents)
Round2(total_price) == ((total_price + 5) \div 10) * 10

\* the dict log_booking appends when the clock reads month m (the
\* timestamp is left out)
LogEntry(c, o, total_price, nights, m) ==
    [customer |-> name(c), room_number |-> room_number(o),
     room_type |-> room_type(o), nights |-> nights,
     total_price |-> Round2(total_price),
     season |-> get_current_season(m)]

\* mutant: the entry inserted at the front of the log
log_booking_Prepend(c, o, total_price, nights, m) ==
    <<LogEntry(c, o, total_price, nights, m)>> \o bookings_log

\* Hotel.log_booking(customer, room, total_price, nights): the log after
\* the append, the clock reading month m
log_booking(c, o, total_price, nights, m) ==
    Append(bookings_log, LogEntry(c, o, total_price, nights, m))

\* Hotel.calculate_total_booking(n, nights) for a registered n, nights > 0
calculate_total_booking(n, nights, m) == calculate_price(_find_room(n), nights, m)

\* mutant: the guests are not checked
BookArgsError_NoGuests(nights, guests) ==
    IF nights <= 0 THEN "ValueError: nights must be positive" ELSE "ok"

\* book_room_for_customer, lines 156-159: the argument checks
BookArgsError(nights, guests) ==
    IF nights <= 0 THEN "ValueError: nights must be positive"
    ELSE IF guests <= 0 THEN "ValueError: guests must be positive"
    ELSE "ok"

\* mutant: the capacity test off by one (guests >= max_guests)
RoomRejects_OffByOne(o, guests) == ~is_available[o] \/ guests >= max_guests(o)

\* mutant: the availability test left out
RoomRejects_NoAvailability(o, guests) == guests > max_guests(o)

\* book_room_for_customer, lines 162 and 166: the two rejections that
\* precede the payment
RoomRejects(o, guests) == ~is_available[o] \/ guests > max_guests(o)

\* mutant: book_room without its availability test
BookRoomRaises_Never(o) == FALSE

\* Room.book_room() raises on an unavailable room
BookRoomRaises(o) == ~is_available[o]

\* mutant: room.book_room() and customer.add_room(room) moved before the
\* payment, so that a refused payment leaves the room booked
PayAndCommit_BookFirst(c, o, total_price, nights, m2) ==
    IF ~CanPay(budget[c], total_price)
    THEN /\ ret' = "False"
         /\ is_available' = [is_available EXCEPT ![o] = FALSE]
         /\ booked_rooms' = [booked_rooms EXCEPT ![c] = Append(booked_rooms[c], o)]
         /\ booked_since' = booked_since \cup {o}
         /\ UNCHANGED << rooms, bookings_log, budget, loyalty_points >>
    ELSE /\ Len(bookings_log) < MaxLog
         /\ ret' = "True"
         /\ budget' = [budget EXCEPT ![c] = BudgetAfterPay(budget[c], total_price)]
         /\ loyalty_points' =
               [loyalty_points EXCEPT ![c] = loyalty_points[c] + PointsFor(total_price)]
         /\ is_available' = [is_available EXCEPT ![o] = FALSE]
         /\ booked_rooms' = [booked_rooms EXCEPT ![c] = Append(booked_rooms[c], o)]
         /\ bookings_log' = log_booking(c, o, total_price, nights, m2)
         /\ booked_since' = booked_since \cup {o}
         /\ UNCHANGED rooms

\* book_room_for_customer, lines 171-179, once the payment is attempted:
\* customer.pay_for_booking(total_price), room.book_room(),
\* customer.add_room(room), self.log_booking(...), whose clock reads m2
PayAndCommit(c, o, total_price, nights, m2) ==
    IF total_price <= 0
    THEN /\ ret' = "ValueError: total_price must be positive"
         /\ UNCHANGED << state, booked_since >>
    ELSE IF ~CanPay(budget[c], total_price)
    THEN /\ ret' = "False"
         /\ UNCHANGED << state, booked_since >>
    ELSE /\ Len(bookings_log) < MaxLog
         /\ budget' = [budget EXCEPT ![c] = BudgetAfterPay(budget[c], total_price)]
         /\ loyalty_points' =
               [loyalty_points EXCEPT ![c] = loyalty_points[c] + PointsFor(total_price)]
         /\ UNCHANGED rooms
         /\ IF BookRoomRaises(o)
            THEN /\ ret' = "ValueError: not available"
                 /\ UNCHANGED << is_available, booked_rooms, bookings_log,
                                 booked_since >>
            ELSE /\ ret' = "True"
                 /\ is_available' = [is_available EXCEPT ![o] = FALSE]
                 /\ booked_rooms' =
                       [booked_rooms EXCEPT ![c] = Append(booked_rooms[c], o)]
                 /\ bookings_log' = log_booking(c, o, total_price, nights, m2)
                 /\ booked_since' = booked_since \cup {o}

\* Hotel.book_room_for_customer(customer, room_number, nights, guests).
\* The clock is read by calculate_price (month m) and again by log_booking:
\* the next month when the month turns between the two reads, else the
\* same.  A call that would append to a log of MaxLog entries is not made.
BookRoomForCustomer(c, n, nights, guests, turns) ==
    LET o == _find_room(n)
    IN  /\ UNCHANGED << out, tx >>
        /\ IF BookArgsError(nights, guests) # "ok"
           THEN /\ call' = Call("book_room_for_customer", c, 0, n, nights, guests, 0, 0)
                /\ ret' = BookArgsError(nights, guests)
                /\ UNCHANGED << state, booked_since >>
           ELSE IF o = 0
           THEN /\ call' = Call("book_room_for_customer", c, 0, n, nights, guests, 0, 0)
                /\ ret' = "ValueError: not found"
                /\ UNCHANGED << state, booked_since >>
           ELSE IF RoomRejects(o, guests)
           THEN /\ call' = Call("book_room_for_customer", c, 0, n, nights, guests, 0, 0)
                /\ ret' = "False"
                /\ UNCHANGED << state, booked_since >>
           ELSE \E m \in ClockMonths :
                   /\ call' = Call("book_room_for_customer", c, 0, n, nights, guests, 0, m)
                   /\ PayAndCommit(c, o, calculate_total_booking(n, nights, m), nights,
                                   IF turns THEN NextMonth(m) ELSE m)

\* mutant: cancel_booking without its test of the customer's list
CancelRejects_Never(c, o) == FALSE

\* mutant: the test asks whether the room is booked at all, not whether
\* this customer booked it
CancelRejects_ByAvailability(c, o) == is_available[o]

\* cancel_booking, line 184: room not in customer.booked_rooms
CancelRejects(c, o) == ~InList(o, booked_rooms[c])

\* Hotel.cancel_booking(customer, room_number)
CancelBooking(c, n) ==
    /\ call' = Call("cancel_booking", c, 0, n, 0, 0, 0, 0)
    /\ UNCHANGED << out, tx >>
    /\ LET o == _find_room(n)
       IN  IF o = 0
           THEN /\ ret' = "ValueError: not found"
                /\ UNCHANGED << state, booked_since >>
           ELSE IF CancelRejects(c, o)
           THEN /\ ret' = "ValueError: no booking"
                /\ UNCHANGED << state, booked_since >>
           ELSE /\ ret' = "None"
                /\ is_available' = [is_available EXCEPT ![o] = TRUE]
                /\ booked_rooms' =
                      [booked_rooms EXCEPT ![c] = ListRemove(booked_rooms[c], o)]
                /\ booked_since' = booked_since \ {o}
                /\ UNCHANGED << rooms, bookings_log, budget, loyalty_points >>

\* ------------------------------------------- calls made past the Hotel
\* amounts offered to Customer.pay_for_booking: -100.0, 0.0, 450.0, 600.0
PayAmounts == {(0 - 100) * Unit, 0, 450 * Unit, 600 * Unit}

\* Customer.pay_for_booking(total_price), called directly
PayForBooking(c, total_price) ==
    /\ call' = Call("pay_for_booking", c, 0, 0, 0, 0, total_price, 0)
    /\ IF total_price <= 0
       THEN /\ ret' = "ValueError: total_price must be positive"
            /\ UNCHANGED << budget, loyalty_points >>
       ELSE IF CanPay(budget[c], total_price)
       THEN /\ ret' = "True"
            /\ budget' = [budget EXCEPT ![c] = BudgetAfterPay(budget[c], total_price)]
            /\ loyalty_points' =
                  [loyalty_points EXCEPT ![c] = loyalty_points[c] + PointsFor(total_price)]
       ELSE /\ ret' = "False"
            /\ UNCHANGED << budget, loyalty_points >>
    /\ UNCHANGED << rooms, bookings_log, is_available, booked_rooms, booked_since,
                    out, tx >>

\* Room.book_room(), called directly on a Room object
RoomBookRoom(o) ==
    /\ call' = Call("book_room", 0, o, 0, 0, 0, 0, 0)
    /\ IF BookRoomRaises(o)
       THEN /\ ret' = "ValueError: not available"
            /\ UNCHANGED << is_available, booked_since >>
       ELSE /\ ret' = "None"
            /\ is_available' = [is_available EXCEPT ![o] = FALSE]
            /\ booked_since' = booked_since \cup {o}
    /\ UNCHANGED << rooms, bookings_log, budget, loyalty_points, booked_rooms,
                    out, tx >>

\* the calls, no booking being under way when the month turns
Next ==
    \/ \E o \in RoomObjs : AddRoom(o)
    \/ \E c \in Customers, n \in RoomNumbers, nights \in 0..MaxNights,
          guests \in 0..MaxGuests : BookRoomForCustomer(c, n, nights, guests, FALSE)
    \/ \E c \in Customers, n \in RoomNumbers : CancelBooking(c, n)
    \/ \E c \in Customers, x \in PayAmounts : PayForBooking(c, x)
    \/ \E o \in RoomObjs : RoomBookRoom(o)

Spec == Init /\ [][Next]_vars

\* the calls, the month turning during a booking or not
NextClock ==
    \/ Next
    \/ \E c \in Customers, n \in RoomNumbers, nights \in 1..MaxNights,
          guests \in 1..MaxGuests : BookRoomForCustomer(c, n, nights, guests, TRUE)

SpecClock == Init /\ [][NextClock]_vars

\* the calls made through the Hotel only: add_room, book_room_for_customer
\* and cancel_booking, one after the other
NextHotel ==
    \/ \E o \in RoomObjs : AddRoom(o)
    \/ \E c \in Customers, n \in RoomNumbers, nights \in 0..MaxNights,
          guests \in 0..MaxGuests : BookRoomForCustomer(c, n, nights, guests, FALSE)
    \/ \E c \in Customers, n \in RoomNumbers : CancelBooking(c, n)

SpecHotel == Init /\ [][NextHotel]_vars

\* ------------------------------------------------- queries, Room methods
\* Room.release_room(), called directly on a Room object
RoomReleaseRoom(o) ==
    /\ call' = Call("release_room", 0, o, 0, 0, 0, 0, 0)
    /\ ret' = "None"
    /\ is_available' = [is_available EXCEPT ![o] = TRUE]
    /\ booked_since' = booked_since \ {o}
    /\ UNCHANGED << rooms, bookings_log, budget, loyalty_points, booked_rooms,
                    out, tx >>

\* Room.calculate_price(nights), called directly when the clock reads m
RoomCalculatePrice(o, nights, m) ==
    /\ call' = Call("calculate_price", 0, o, 0, nights, 0, 0, m)
    /\ IF nights <= 0
       THEN /\ ret' = "ValueError: nights must be positive"
            /\ out' = NoOut
       ELSE /\ ret' = "value"
            /\ out' = [NoOut EXCEPT !.price = calculate_price(o, nights, m)]
    /\ UNCHANGED << state, booked_since, tx >>

\* Hotel.calculate_total_booking(room_number, nights), called directly when
\* the clock reads m: _find_room first, then room.calculate_price(nights)
CalculateTotalBooking(n, nights, m) ==
    /\ call' = Call("calculate_total_booking", 0, 0, n, nights, 0, 0, m)
    /\ IF _find_room(n) = 0
       THEN /\ ret' = "ValueError: not found"
            /\ out' = NoOut
       ELSE IF nights <= 0
       THEN /\ ret' = "ValueError: nights must be positive"
            /\ out' = NoOut
       ELSE /\ ret' = "value"
            /\ out' = [NoOut EXCEPT !.price = calculate_total_booking(n, nights, m)]
    /\ UNCHANGED << state, booked_since, tx >>

\* the room_type arguments given to show_available_rooms: none (the
\* default, None), the two valid types, an unknown type, the empty string
TypeArgs == {PyNone, "Single", "Double", "Triple", ""}

\* the test of line 125 had it been `room_type is not None`: a room_type
\* is given
Truthy_NotNone(v) == v # PyNone

\* bool(v) for v None or a string: line 125, `if room_type:`
Truthy(v) == v # PyNone /\ v # ""

\* show_available_rooms raises: lines 125-127
ShowRejects(t) == Truthy(t) /\ t \notin {"Single", "Double"}

\* the list show_available_rooms(t) returns when it does not raise:
\* lines 124, 128, 129
AvailableRooms(t) ==
    LET available == SelectSeq(rooms, LAMBDA o : is_available[o])
    IN  IF Truthy(t)
        THEN SelectSeq(available, LAMBDA o : room_type(o) = t)
        ELSE available

\* Hotel.show_available_rooms(room_type)
ShowAvailableRooms(t) ==
    /\ call' = [Call("show_available_rooms", 0, 0, 0, 0, 0, 0, 0) EXCEPT !.room_type = t]
    /\ IF ShowRejects(t)
       THEN /\ ret' = "ValueError: room type"
            /\ out' = NoOut
       ELSE /\ ret' = "value"
            /\ out' = [NoOut EXCEPT !.rooms = AvailableRooms(t)]
    /\ UNCHANGED << state, booked_since, tx >>

\* the queries and the Room methods, on a hotel whose rooms are registered,
\* booked and released
NextRoom ==
    \/ \E o \in RoomObjs : AddRoom(o)
    \/ \E o \in RoomObjs : RoomBookRoom(o)
    \/ \E o \in RoomObjs : RoomReleaseRoom(o)
    \/ \E o \in RoomObjs, nights \in (0 - 1)..MaxNights, m \in Months :
          RoomCalculatePrice(o, nights, m)
    \/ \E n \in RoomNumbers, nights \in (0 - 1)..MaxNights, m \in Months :
          CalculateTotalBooking(n, nights, m)
    \/ \E t \in TypeArgs : ShowAvailableRooms(t)

SpecRoom == Init /\ [][NextRoom]_vars

\* ------------------------------------------- book_room_for_customer by step
\* Hotel.book_room_for_customer statement by statement, for a caller t: the
\* steps in the order of lines 156-179
StepOrder_BookFirst ==
    << "args", "find", "avail", "capacity", "book", "price", "pay", "add",
       "log", "return" >>

StepOrder_PayFirst ==
    << "args", "find", "avail", "price", "pay", "capacity", "book", "add",
       "log", "return" >>

StepOrder ==
    << "args", "find", "avail", "capacity", "price", "pay", "book", "add",
       "log", "return" >>

\* the statement after the one at pc
NextPc(pc) ==
    LET i == CHOOSE j \in 1..Len(StepOrder) : StepOrder[j] = pc
    IN  StepOrder[i + 1]

\* the caller is inside a call
InCall(t) == tx[t].pc \notin {"idle", "done"}

\* the caller goes on to the next statement, step being passed
Passes(t, step) ==
    [tx EXCEPT ![t].pc = NextPc(tx[t].pc), ![t].passed = tx[t].passed \cup {step}]

\* the call ends: return r, or raise r
Ends(t, r) == [tx EXCEPT ![t].pc = "done", ![t].ret = r]

\* a caller enters book_room_for_customer(c, n, nights, guests); when alone,
\* only while no other caller is inside a call
TxStart(t, c, n, nights, guests, alone) ==
    /\ tx[t].pc = "idle"
    /\ alone => \A u \in Callers : ~InCall(u)
    /\ tx' = [tx EXCEPT ![t] =
                [pc |-> StepOrder[1], customer |-> c, room_number |-> n,
                 nights |-> nights, guests |-> guests, room |-> 0,
                 total_price |-> 0, passed |-> {}, ret |-> "None"]]
    /\ UNCHANGED << state, call, ret, booked_since, out >>

\* lines 156-159: the checks of nights and guests
TxArgs(t) ==
    /\ tx[t].pc = "args"
    /\ tx' = IF BookArgsError(tx[t].nights, tx[t].guests) # "ok"
             THEN Ends(t, BookArgsError(tx[t].nights, tx[t].guests))
             ELSE Passes(t, "args")
    /\ UNCHANGED << state, call, ret, booked_since, out >>

\* line 161: room = self._find_room(room_number)
TxFind(t) ==
    /\ tx[t].pc = "find"
    /\ tx' = IF _find_room(tx[t].room_number) = 0
             THEN Ends(t, "ValueError: not found")
             ELSE [Passes(t, "find") EXCEPT ![t].room = _find_room(tx[t].room_number)]
    /\ UNCHANGED << state, call, ret, booked_since, out >>

\* lines 162-164: if not room.is_available: return False
TxAvail(t) ==
    /\ tx[t].pc = "avail"
    /\ tx' = IF ~is_available[tx[t].room] THEN Ends(t, "False") ELSE Passes(t, "avail")
    /\ UNCHANGED << state, call, ret, booked_since, out >>

\* lines 166-168: if guests > room.max_guests: return False
TxCapacity(t) ==
    /\ tx[t].pc = "capacity"
    /\ tx' = IF tx[t].guests > max_guests(tx[t].room)
             THEN Ends(t, "False")
             ELSE Passes(t, "capacity")
    /\ UNCHANGED << state, call, ret, booked_since, out >>

\* line 170: total_price = self.calculate_total_booking(room_number, nights)
TxPrice(t) ==
    /\ tx[t].pc = "price"
    /\ \E m \in ClockMonths :
          tx' = [Passes(t, "price") EXCEPT ![t].total_price =
                    calculate_total_booking(tx[t].room_number, tx[t].nights, m)]
    /\ UNCHANGED << state, call, ret, booked_since, out >>

\* lines 171-173: if not customer.pay_for_booking(total_price): return False
TxPay(t) ==
    /\ tx[t].pc = "pay"
    /\ LET c == tx[t].customer
           total_price == tx[t].total_price
       IN  IF total_price <= 0
           THEN /\ tx' = Ends(t, "ValueError: total_price must be positive")
                /\ UNCHANGED << budget, loyalty_points >>
           ELSE IF ~CanPay(budget[c], total_price)
           THEN /\ tx' = Ends(t, "False")
                /\ UNCHANGED << budget, loyalty_points >>
           ELSE /\ tx' = Passes(t, "pay")
                /\ budget' = [budget EXCEPT ![c] = BudgetAfterPay(budget[c], total_price)]
                /\ loyalty_points' =
                      [loyalty_points EXCEPT
                          ![c] = loyalty_points[c] + PointsFor(total_price)]
    /\ UNCHANGED << rooms, bookings_log, is_available, booked_rooms, call, ret,
                    booked_since, out >>

\* line 175: room.book_room()
TxBook(t) ==
    /\ tx[t].pc = "book"
    /\ IF BookRoomRaises(tx[t].room)
       THEN /\ tx' = Ends(t, "ValueError: not available")
            /\ UNCHANGED << is_available, booked_since >>
       ELSE /\ tx' = Passes(t, "book")
            /\ is_available' = [is_available EXCEPT ![tx[t].room] = FALSE]
            /\ booked_since' = booked_since \cup {tx[t].room}
    /\ UNCHANGED << rooms, bookings_log, budget, loyalty_points, booked_rooms,
                    call, ret, out >>

\* line 176: customer.add_room(room)
TxAdd(t) ==
    /\ tx[t].pc = "add"
    /\ tx' = Passes(t, "add")
    /\ booked_rooms' = [booked_rooms EXCEPT
                           ![tx[t].customer] = Append(booked_rooms[tx[t].customer],
                                                      tx[t].room)]
    /\ UNCHANGED << rooms, bookings_log, is_available, budget, loyalty_points,
                    call, ret, booked_since, out >>

\* line 178: self.log_booking(customer, room, total_price, nights)
TxLog(t) ==
    /\ tx[t].pc = "log"
    /\ tx' = Passes(t, "log")
    /\ \E m \in ClockMonths :
          bookings_log' = log_booking(tx[t].customer, tx[t].room, tx[t].total_price,
                                      tx[t].nights, m)
    /\ UNCHANGED << rooms, is_available, budget, loyalty_points, booked_rooms,
                    call, ret, booked_since, out >>

\* line 179: return True
TxReturn(t) ==
    /\ tx[t].pc = "return"
    /\ tx' = Ends(t, "True")
    /\ UNCHANGED << state, call, ret, booked_since, out >>

\* the hotel of the tests' setUp: rooms 101 and 102 registered, in this order
InitRegistered ==
    /\ rooms = << 1, 2 >>
    /\ bookings_log = <<>>
    /\ is_available = [o \in RoomObjs |-> TRUE]
    /\ budget = [c \in Customers |-> CustomerArgs[c].budget]
    /\ loyalty_points = [c \in Customers |-> 0]
    /\ booked_rooms = [c \in Customers |-> <<>>]
    /\ call = Call("init", 0, 0, 0, 0, 0, 0, 0)
    /\ ret = "None"
    /\ booked_since = {}
    /\ out = NoOut
    /\ tx = [t \in Callers |-> IdleTx]

\* the statements of a call under way
TxStep(t) ==
    \/ TxArgs(t)
    \/ TxFind(t)
    \/ TxAvail(t)
    \/ TxCapacity(t)
    \/ TxPrice(t)
    \/ TxPay(t)
    \/ TxBook(t)
    \/ TxAdd(t)
    \/ TxLog(t)
    \/ TxReturn(t)

\* one call of book_room_for_customer by each caller, one call after the other
NextSteps ==
    \/ \E t \in Callers, c \in Customers, n \in RoomNumbers, nights \in 0..MaxNights,
          guests \in 0..MaxGuests : TxStart(t, c, n, nights, guests, TRUE)
    \/ \E t \in Callers : TxStep(t)

SpecSteps == InitRegistered /\ [][NextSteps]_vars

\* one call by each caller, the statements of the two calls interleaved in
\* any order: the code holds no lock
NextRace ==
    \/ \E t \in Callers, c \in Customers, n \in RoomNumbers, nights \in 0..MaxNights,
          guests \in 0..MaxGuests : TxStart(t, c, n, nights, guests, FALSE)
    \/ \E t \in Callers : TxStep(t)

SpecRace == InitRegistered /\ [][NextRace]_vars

\* ================================================================ claims
\* the registered Room objects numbered n
Registered(n) == {rooms[i] : i \in {j \in DOMAIN rooms : room_number(rooms[j]) = n}}

\* o occurs in customer c's booked list
Holds(c, o) == \E i \in DOMAIN booked_rooms[c] : booked_rooms[c][i] = o

IsBook(k) == k.op = "book_room_for_customer"
IsCancel(k) == k.op = "cancel_booking"
IsPay(k) == k.op = "pay_for_booking"

\* customer c can pay for nights in room o at the price of the month the
\* call read, and at the price of every month it may read when it read none
Affords(k, o) ==
    IF k.month \in Months
    THEN budget[k.customer] >= calculate_price(o, k.nights, k.month)
    ELSE \A m \in ClockMonths :
            budget[k.customer] >= calculate_price(o, k.nights, m)

\* C1: a book_room_for_customer call with nights > 0, guests > 0, a
\* registered and available room, guests <= max_guests and a budget that
\* covers the total price returns True; afterwards the room is unavailable
\* and in the customer's booked list, and the log is one entry longer.
C1_BookSucceeds ==
    [][ \A o \in Registered(call'.room_number) :
          ( /\ IsBook(call')
            /\ call'.nights > 0
            /\ call'.guests > 0
            /\ is_available[o]
            /\ call'.guests <= max_guests(o)
            /\ Affords(call', o) )
          => /\ ret' = "True"
             /\ ~is_available'[o]
             /\ \E i \in DOMAIN booked_rooms'[call'.customer] :
                   booked_rooms'[call'.customer][i] = o
             /\ Len(bookings_log') = Len(bookings_log) + 1 ]_vars

\* a booking has just succeeded: the room is unavailable, held by the
\* customer and logged
C1_Witness ==
    /\ IsBook(call)
    /\ ret = "True"
    /\ \E o \in Registered(call.room_number) :
          ~is_available[o] /\ Holds(call.customer, o)
    /\ Len(bookings_log) >= 1

\* C2: when book_room_for_customer returns False, the room is unavailable,
\* or the guests exceed max_guests, or the budget is below the total price,
\* and the availability of every room, every customer's budget, loyalty
\* points and booked list, and the log are what they were before the call.
C2_FalseChangesNothing ==
    [][ (IsBook(call') /\ ret' = "False")
        => /\ UNCHANGED << is_available, budget, loyalty_points, booked_rooms,
                           bookings_log >>
           /\ \E o \in Registered(call'.room_number) :
                 \/ ~is_available[o]
                 \/ call'.guests > max_guests(o)
                 \/ /\ call'.month \in Months
                    /\ budget[call'.customer]
                          < calculate_price(o, call'.nights, call'.month) ]_vars

\* a booking was refused at the payment (the clock was read for the
\* price): the room is still available and nobody holds it
C2_Witness ==
    /\ IsBook(call)
    /\ ret = "False"
    /\ call.month \in Months
    /\ \E o \in Registered(call.room_number) :
          /\ is_available[o]
          /\ budget[call.customer] < calculate_price(o, call.nights, call.month)
          /\ \A c \in Customers : ~Holds(c, o)

C4_CancelRestores ==
    [][ \A o \in Registered(call'.room_number) :
          (IsCancel(call') /\ Holds(call'.customer, o))
          => /\ ret' = "None"
             /\ is_available'[o]
             /\ ~\E i \in DOMAIN booked_rooms'[call'.customer] :
                    booked_rooms'[call'.customer][i] = o
             /\ budget' = budget
             /\ loyalty_points' = loyalty_points ]_vars

\* a booking was cancelled: the room is available again, the customer no
\* longer holds it and is still charged, the points still awarded
C4_Witness ==
    /\ IsCancel(call)
    /\ ret = "None"
    /\ \E o \in Registered(call.room_number) :
          is_available[o] /\ ~Holds(call.customer, o)
    /\ budget[call.customer] < CustomerArgs[call.customer].budget
    /\ loyalty_points[call.customer] > 0

\* the k with 100 k <= x < 100 (k + 1), x in thousandths
Floor100(x) ==
    CHOOSE k \in 0..(x \div Unit) :
        k * 100 * Unit <= x /\ x < (k + 1) * 100 * Unit

\* C5: pay_for_booking(x) on budget b: for x > 0 and b >= x it returns
\* True, the budget becomes b - x and the points grow by floor(x / 100);
\* for x > 0 and b < x it returns False and changes nothing; for x <= 0 it
\* raises the invalid-argument error and changes nothing.
C5_Pay ==
    [][ IsPay(call') =>
          LET c == call'.customer
              x == call'.amount
              others == \A d \in Customers \ {c} :
                           /\ budget'[d] = budget[d]
                           /\ loyalty_points'[d] = loyalty_points[d]
          IN  /\ others
              /\ IF x <= 0
                 THEN /\ ret' = "ValueError: total_price must be positive"
                      /\ budget'[c] = budget[c]
                      /\ loyalty_points'[c] = loyalty_points[c]
                 ELSE IF budget[c] >= x
                 THEN /\ ret' = "True"
                      /\ budget'[c] = budget[c] - x
                      /\ loyalty_points'[c] = loyalty_points[c] + Floor100(x)
                 ELSE /\ ret' = "False"
                      /\ budget'[c] = budget[c]
                      /\ loyalty_points'[c] = loyalty_points[c] ]_vars

\* a payment of 450.0 out of 500.0 succeeded: 50.0 are left and 4 points
\* awarded
C5_Witness ==
    /\ IsPay(call)
    /\ ret = "True"
    /\ call.amount = 450 * Unit
    /\ budget[call.customer] = 50 * Unit
    /\ loyalty_points[call.customer] = 4

\* C6: book_room_for_customer raises exactly when nights <= 0, guests <= 0
\* or the room number is not registered, and then changes nothing; in
\* every other case it returns True or False.
C6_BookErrors ==
    [][ IsBook(call') =>
          LET bad == \/ call'.nights <= 0
                     \/ call'.guests <= 0
                     \/ Registered(call'.room_number) = {}
          IN  /\ bad <=> ret' \notin {"True", "False"}
              /\ bad => UNCHANGED state ]_vars

\* a booking of an unregistered number, with valid nights and guests,
\* raised the not-found error
C6_Witness ==
    /\ IsBook(call)
    /\ call.nights > 0
    /\ call.guests > 0
    /\ Registered(call.room_number) = {}
    /\ rooms # <<>>
    /\ ret = "ValueError: not found"

\* C7: cancel_booking raises the not-found error for an unregistered room
\* number and the no-booking error for a registered room that is not in
\* the customer's booked list, and in both cases changes nothing.
C7_CancelErrors ==
    [][ IsCancel(call') =>
          /\ Registered(call'.room_number) = {}
                => ret' = "ValueError: not found" /\ UNCHANGED state
          /\ \A o \in Registered(call'.room_number) :
                ~Holds(call'.customer, o)
                => ret' = "ValueError: no booking" /\ UNCHANGED state ]_vars

\* a customer's cancellation of a room that another customer holds was
\* refused, and the other customer still holds the unavailable room
C7_Witness ==
    /\ IsCancel(call)
    /\ ret = "ValueError: no booking"
    /\ \E o \in Registered(call.room_number) :
          /\ ~is_available[o]
          /\ \E c \in Customers : c # call.customer /\ Holds(c, o)

\* C8: every customer's budget is >= 0 in every reachable state.
C8_BudgetNonNegative == \A c \in Customers : budget[c] >= 0

\* a booking that cost the customer's whole budget succeeded
C8_Witness ==
    /\ IsBook(call)
    /\ ret = "True"
    /\ budget[call.customer] = 0

\* no two registered rooms share a room number
NoDuplicateNumber ==
    \A i, j \in DOMAIN rooms :
        i # j => room_number(rooms[i]) # room_number(rooms[j])

\* C9: no two registered rooms share a room number; add_room of a room
\* whose number is registered raises and leaves the rooms as they are,
\* and no other operation changes the rooms.
C9_UniqueNumbers ==
    /\ []NoDuplicateNumber
    /\ [][ /\ (call'.op = "add_room" /\ Registered(room_number(call'.room)) # {})
                => ret' = "ValueError: already exists" /\ rooms' = rooms
           /\ call'.op # "add_room" => rooms' = rooms ]_vars

\* add_room of a second room numbered like a registered one was refused,
\* two rooms being registered
C9_Witness ==
    /\ call.op = "add_room"
    /\ ret = "ValueError: already exists"
    /\ Len(rooms) = 2
    /\ NoDuplicateNumber

\* C10: every step leaves the log as it is or appends one entry at its
\* end; an entry is appended only by a book_room_for_customer call that
\* returns True; cancel_booking leaves the log as it is.
C10_LogAppendOnly ==
    [][ /\ \/ bookings_log' = bookings_log
           \/ /\ Len(bookings_log') = Len(bookings_log) + 1
              /\ SubSeq(bookings_log', 1, Len(bookings_log)) = bookings_log
        /\ bookings_log' # bookings_log => IsBook(call') /\ ret' = "True"
        /\ IsCancel(call') => bookings_log' = bookings_log ]_vars

\* a second entry was appended behind a different first one
C10_Witness ==
    /\ IsBook(call)
    /\ ret = "True"
    /\ Len(bookings_log) = 2
    /\ bookings_log[1] # bookings_log[2]


\* the caller whose call takes the step
Acts(t) == tx'[t] # tx[t]

\* C11: in a call of book_room_for_customer made alone, the statement that
\* lowers a budget runs only after the availability check and the capacity
\* check of this call have passed, the room then being available and large
\* enough; the statements that change the room's flag or a booked list run
\* only after the payment of this call has succeeded, the customer having
\* been charged the total.
C11_ChecksThenPayThenBook ==
    [][\A t \in Callers : Acts(t) =>
          /\ (budget' # budget) =>
                /\ {"avail", "capacity"} \subseteq tx[t].passed
                /\ is_available[tx[t].room]
                /\ tx[t].guests <= max_guests(tx[t].room)
          /\ (is_available' # is_available \/ booked_rooms' # booked_rooms) =>
                /\ "pay" \in tx[t].passed
                /\ budget[tx[t].customer] + tx[t].total_price
                      <= CustomerArgs[tx[t].customer].budget]_vars

\* one call has booked a room and been charged; the other call, by a
\* customer who can afford it, was refused at the availability check or at
\* the capacity check and has left its customer's budget as constructed
C11_Witness ==
    \E t, u \in Callers :
        /\ tx[t].pc = "done" /\ tx[t].ret = "True"
        /\ budget[tx[t].customer] < CustomerArgs[tx[t].customer].budget
        /\ tx[u].pc = "done" /\ tx[u].ret = "False"
        /\ "find" \in tx[u].passed /\ "pay" \notin tx[u].passed
        /\ tx[u].customer # tx[t].customer
        /\ budget[tx[u].customer] = CustomerArgs[tx[u].customer].budget
        /\ budget[tx[u].customer]
              >= calculate_price(tx[u].room, tx[u].nights, 8)

\* the month -> season table and the multipliers, as the documentation
\* states them (multipliers in tenths)
DocSeason(m) ==
    IF m \in {12, 1, 2} THEN "winter"
    ELSE IF m \in 3..5 THEN "spring"
    ELSE IF m \in 6..8 THEN "summer"
    ELSE "fall"

DocMultiplier(season) ==
    IF season = "winter" THEN 8
    ELSE IF season = "spring" THEN 10
    ELSE IF season = "summer" THEN 13
    ELSE 11

\* x is y rounded to 2 decimals (amounts in thousandths)
IsRounded2(x, y) == x % 10 = 0 /\ 2 * x - 2 * y <= 10 /\ 2 * y - 2 * x <= 10

\* C12: every book_room_for_customer call that returns True lowers the
\* customer's budget by exactly price_per_night x season multiplier x nights,
\* raises the loyalty points by the floor of that total / 100, and appends a
\* log entry with the customer's name, the room's number and type, the
\* nights, the total rounded to 2 decimals and the season of the month;
\* room 101 (Single, 100 a night) booked for 2 nights in summer by a customer
\* with budget 500 gives total 260, budget 240, 2 points, the room
\* unavailable and a log of one entry with season summer.
C12_SuccessEffects ==
    [][ (IsBook(call') /\ ret' = "True") =>
          \A o \in Registered(call'.room_number) :
             LET c == call'.customer
                 total == price_per_night(o) * DocMultiplier(DocSeason(call'.month))
                             * call'.nights
                 e == bookings_log'[Len(bookings_log')]
             IN  /\ budget'[c] = budget[c] - total
                 /\ loyalty_points'[c] = loyalty_points[c] + Floor100(total)
                 /\ Len(bookings_log') = Len(bookings_log) + 1
                 /\ e.customer = name(c)
                 /\ e.room_number = call'.room_number
                 /\ e.room_type = room_type(o)
                 /\ e.nights = call'.nights
                 /\ IsRounded2(e.total_price, total)
                 /\ e.season = DocSeason(call'.month)
                 /\ ( /\ room_number(o) = 101 /\ price_per_night(o) = 100 * 100
                      /\ budget[c] = 500 * Unit /\ loyalty_points[c] = 0
                      /\ call'.nights = 2 /\ call'.guests = 1
                      /\ DocSeason(call'.month) = "summer"
                      /\ bookings_log = <<>> )
                    => /\ total = 260 * Unit
                       /\ budget'[c] = 240 * Unit
                       /\ loyalty_points'[c] = 2
                       /\ ~is_available'[o]
                       /\ Len(bookings_log') = 1
                       /\ e.total_price = 260 * Unit
                       /\ e.season = "summer" ]_vars

\* the documented scenario has just run: room 101 booked for 2 nights and 1
\* guest by the customer constructed with budget 500, who now has 240 and 2
\* points, the log holding the one entry of 260 in summer
C12_Witness ==
    /\ IsBook(call) /\ ret = "True"
    /\ call.room_number = 101 /\ call.nights = 2 /\ call.guests = 1
    /\ CustomerArgs[call.customer].budget = 500 * Unit
    /\ budget[call.customer] = 240 * Unit
    /\ loyalty_points[call.customer] = 2
    /\ \A o \in Registered(101) : ~is_available[o]
    /\ Len(bookings_log) = 1
    /\ bookings_log[1].total_price = 260 * Unit
    /\ bookings_log[1].season = "summer"

\* the price the documentation gives for nights in room o in month m
DocPrice(o, nights, m) == price_per_night(o) * DocMultiplier(DocSeason(m)) * nights

\* C13: in every month 1..12, Room.calculate_price(n) and
\* Hotel.calculate_total_booking(room_number, n) for a registered number
\* return price_per_night x M(season(month)) x n when n > 0, with Jan, Feb,
\* Dec winter (0.8), Mar-May spring (1.0), Jun-Aug summer (1.3), Sep-Nov fall
\* (1.1); for n <= 0 both raise the invalid-argument error; neither changes
\* the state of the hotel, its rooms or its customers.
C13_PriceByMonth ==
    [][ /\ (call'.op = "calculate_price") =>
             /\ call'.month \in Months
             /\ (call'.nights > 0) =>
                   /\ ret' = "value"
                   /\ out'.price = DocPrice(call'.room, call'.nights, call'.month)
             /\ (call'.nights <= 0) => ret' = "ValueError: nights must be positive"
             /\ state' = state
        /\ (call'.op = "calculate_total_booking") =>
             /\ call'.month \in Months
             /\ \A o \in Registered(call'.room_number) :
                   /\ (call'.nights > 0) =>
                         /\ ret' = "value"
                         /\ out'.price = DocPrice(o, call'.nights, call'.month)
                   /\ (call'.nights <= 0) =>
                         ret' = "ValueError: nights must be positive"
             /\ state' = state ]_vars

\* calculate_total_booking(101, 2) has just returned 160 in December, the
\* winter price of two nights at 100
C13_Witness ==
    /\ call.op = "calculate_total_booking"
    /\ call.room_number = 101 /\ call.nights = 2 /\ call.month = 12
    /\ ret = "value"
    /\ out.price = 160 * Unit

\* the elements of a list
Elems(list) == {list[i] : i \in DOMAIN list}

\* the registered rooms that are available, of type t when a type is given
DocAvailable(t) ==
    {o \in Elems(rooms) : is_available[o] /\ (t # PyNone => room_type(o) = t)}

\* C14: show_available_rooms(room_type) raises the invalid-argument error for
\* every room_type given that is neither Single nor Double; with no
\* room_type, or a valid one, it returns exactly the registered rooms that
\* are available (of that type when one is given), each once; it changes no
\* state.
C14_ShowValidatesType ==
    [][ (call'.op = "show_available_rooms") =>
          LET t == call'.room_type
          IN  /\ (t # PyNone /\ t \notin {"Single", "Double"}) =>
                    ret' = "ValueError: room type"
              /\ (t = PyNone \/ t \in {"Single", "Double"}) =>
                    /\ ret' = "value"
                    /\ Elems(out'.rooms) = DocAvailable(t)
                    /\ Len(out'.rooms) = Cardinality(DocAvailable(t))
              /\ state' = state ]_vars

\* C15: Room.book_room() on an available room makes it unavailable; on an
\* unavailable room it raises and leaves the room unavailable;
\* Room.release_room() makes the room available whether it was available or
\* not, so that a release of a room that is already available changes
\* nothing; neither touches another room.
C15_BookAndRelease ==
    [][ /\ (call'.op = "book_room") =>
             LET o == call'.room
             IN  /\ is_available[o] => (ret' = "None" /\ ~is_available'[o])
                 /\ ~is_available[o] =>
                       (ret' = "ValueError: not available" /\ ~is_available'[o])
                 /\ \A p \in RoomObjs \ {o} : is_available'[p] = is_available[p]
        /\ (call'.op = "release_room") =>
             LET o == call'.room
             IN  /\ ret' = "None"
                 /\ is_available'[o]
                 /\ \A p \in RoomObjs \ {o} : is_available'[p] = is_available[p]
                 /\ is_available[o] => state' = state ]_vars

\* a room has been booked directly and released since, while another room
\* is still booked
C15_Witness ==
    /\ call.op = "release_room"
    /\ ret = "None"
    /\ is_available[call.room]
    /\ \E p \in RoomObjs \ {call.room} : ~is_available[p] /\ p \in booked_since

\* caller t's call has ended in the error of Room.book_room
RefusedLate(t) == tx[t].pc = "done" /\ tx[t].ret = "ValueError: not available"

\* the times o occurs in a list
Count(list, o) == Cardinality({i \in DOMAIN list : list[i] = o})

\* C16: with the statements of two book_room_for_customer calls interleaved
\* and no lock, a call ends in the error of Room.book_room only after it has
\* passed the availability check, the capacity check and the payment: its
\* customer has been charged the total, the call has not put the room in a
\* booked list, and the room was booked by the other call, which passed the
\* availability check too.  Such an end is reachable (C16_Witness).
C16_ChargedThenRefused ==
    \A t \in Callers : RefusedLate(t) =>
        /\ {"avail", "capacity", "pay"} \subseteq tx[t].passed
        /\ tx[t].passed \cap {"book", "add", "log"} = {}
        /\ tx[t].total_price > 0
        /\ budget[tx[t].customer] + tx[t].total_price
              <= CustomerArgs[tx[t].customer].budget
        /\ \E u \in Callers \ {t} :
              /\ tx[u].room = tx[t].room
              /\ {"avail", "book"} \subseteq tx[u].passed
        /\ Count(booked_rooms[tx[t].customer], tx[t].room)
              = Cardinality({u \in Callers : /\ tx[u].customer = tx[t].customer
                                             /\ tx[u].room = tx[t].room
                                             /\ "add" \in tx[u].passed})

\* two calls for the same room by different customers have both passed the
\* availability check; one has ended in the error, its customer's budget
\* lowered by the total and the room not in that customer's list
C16_Witness ==
    \E t, u \in Callers :
        /\ t # u
        /\ tx[t].room = tx[u].room
        /\ tx[t].customer # tx[u].customer
        /\ "avail" \in tx[t].passed /\ "avail" \in tx[u].passed
        /\ RefusedLate(t)
        /\ tx[t].total_price > 0
        /\ budget[tx[t].customer]
              = CustomerArgs[tx[t].customer].budget - tx[t].total_price
        /\ ~Holds(tx[t].customer, tx[t].room)

\* the occurrences of o in the booked lists of all customers together
Occurrences(o) ==
    {ci \in Customers \X UNION {DOMAIN booked_rooms[c] : c \in Customers} :
        ci[2] \in DOMAIN booked_rooms[ci[1]] /\ booked_rooms[ci[1]][ci[2]] = o}

\* C17: after any sequence of add_room, book_room_for_customer and
\* cancel_booking calls, every registered room is unavailable exactly when it
\* occurs once in the booked lists of all customers together, and available
\* exactly when it occurs in none: no room is held by two customers, none is
\* twice in a list.
C17_FlagMatchesLists ==
    \A o \in Elems(rooms) :
        /\ ~is_available[o] <=> Cardinality(Occurrences(o)) = 1
        /\ is_available[o] <=> Occurrences(o) = {}
        /\ \A c \in Customers : Count(booked_rooms[c], o) <= 1
        /\ \A c, d \in Customers : (Holds(c, o) /\ Holds(d, o)) => c = d

\* a booking has just been cancelled while another customer holds another
\* room: one room back in no list and available, one in one list and not
C17_Witness ==
    /\ IsCancel(call)
    /\ ret = "None"
    /\ \E o, p \in Elems(rooms) :
          /\ room_number(o) = call.room_number
          /\ is_available[o] /\ Occurrences(o) = {}
          /\ ~is_available[p] /\ Cardinality(Occurrences(p)) = 1
          /\ ~Holds(call.customer, p)

\* C18: in book_room_for_customer and cancel_booking calls, a room booked by
\* customer a becomes available again only by a cancel_booking call of a for
\* that room; a cancel_booking for it by another customer raises and leaves
\* the room unavailable and in a's list.
C18_OnlyHolderReleases ==
    [][ \A o \in Elems(rooms), a \in Customers :
          (~is_available[o] /\ Holds(a, o)) =>
             /\ is_available'[o] =>
                   /\ IsCancel(call')
                   /\ call'.customer = a
                   /\ call'.room_number = room_number(o)
                   /\ ret' = "None"
             /\ ( /\ IsCancel(call')
                  /\ call'.customer # a
                  /\ call'.room_number = room_number(o) )
                => /\ ret' = "ValueError: no booking"
                   /\ ~is_available'[o]
                   /\ \E i \in DOMAIN booked_rooms'[a] : booked_rooms'[a][i] = o
                   /\ state' = state ]_vars

\* a customer has just tried to cancel a room that another customer holds:
\* the call raised, the room is unavailable and in the holder's list, and
\* the log shows the holder paid for it
C18_Witness ==
    /\ IsCancel(call)
    /\ ret = "ValueError: no booking"
    /\ \E o \in Registered(call.room_number), a \in Customers \ {call.customer} :
          /\ ~is_available[o]
          /\ Holds(a, o)
          /\ \E i \in DOMAIN bookings_log :
                /\ bookings_log[i].customer = name(a)
                /\ bookings_log[i].room_number = call.room_number

\* the sum of total_price over the entries of a log that carry a name
RECURSIVE LogTotal(_, _)
LogTotal(log, who) ==
    IF log = <<>> THEN 0
    ELSE (IF Head(log).customer = who THEN Head(log).total_price ELSE 0)
            + LogTotal(Tail(log), who)

\* C19: in book_room_for_customer and cancel_booking calls, for every
\* customer the budget at construction minus the current budget is the sum
\* of total_price over the log entries with the customer's name; the log
\* grows by one entry with every book_room_for_customer call that returns
\* True and by nothing else, so that its length is the number of these
\* calls; no budget rises and no loyalty points fall.
C19_LogAccountsForBudget ==
    /\ [](\A c \in Customers :
            CustomerArgs[c].budget - budget[c] = LogTotal(bookings_log, name(c)))
    /\ [][ /\ Len(bookings_log') =
                Len(bookings_log) + (IF IsBook(call') /\ ret' = "True" THEN 1 ELSE 0)
           /\ \A c \in Customers :
                /\ budget'[c] <= budget[c]
                /\ loyalty_points'[c] >= loyalty_points[c] ]_vars

\* two bookings are logged, a customer has spent and a booking has just
\* been cancelled, without a refund
C19_Witness ==
    /\ IsCancel(call)
    /\ ret = "None"
    /\ Len(bookings_log) = 2
    /\ budget[call.customer] < CustomerArgs[call.customer].budget
    /\ loyalty_points[call.customer] > 0
    /\ LogTotal(bookings_log, name(call.customer)) > 0
====
